---- MODULE Spec2Model ----
(***************************************************************************)
(* Threshold BLS signing over Shamir shares: the two programs              *)
(*   src/dkg/src/main.rs         (two-dealer DKG, share validation,        *)
(*                                aggregate_shares, final verification)    *)
(*   src/bls_shamir/src/main.rs  (mul_zero, projective_mul, key check)     *)
(*                                                                         *)
(* Number representations                                                  *)
(*   u64 / i64   machine words of WordBits bits.  TLC's integers are 32    *)
(*               bits wide, so the word is scaled down from 64 bits; all   *)
(*               wrapping and casting is done modulo 2^WordBits exactly as *)
(*               the code does it modulo 2^64.                             *)
(*   Scalar      the scalar field, integers modulo the prime ScalarOrder.  *)
(*               As in BLS12-381 the order is larger than every word, so   *)
(*               Scalar::from is injective on words.                       *)
(*   G1, G2      a group element is its discrete logarithm to the group's  *)
(*               generator, an element of 0 .. ScalarOrder-1.              *)
(*   Gt          pairing(a*G1gen, b*G2gen) is a*b modulo ScalarOrder (the   *)
(*               exponent of the target generator): bilinear and           *)
(*               non-degenerate.                                           *)
(*   f64         IEEE-754 binary64 with its true 53-bit significand,       *)
(*               round to nearest, ties to even.  A significand is a       *)
(*               natural number held as a little-endian sequence of limbs  *)
(*               of LimbBits bits.                                         *)
(***************************************************************************)
EXTENDS Integers, Sequences, FiniteSets, TLC

\* ------------------------------------------------------------------------
\* Natural numbers of arbitrary size (significands of f64 values)
\* ------------------------------------------------------------------------

LimbBits == 15

RECURSIVE Pow2(_)
Pow2(k) == IF k = 0 THEN 1 ELSE 2 * Pow2(k - 1)

LimbBase == Pow2(LimbBits)

\* drop the high zero limbs
RECURSIVE BigNorm(_)
BigNorm(m) ==
    IF m = <<>> THEN <<>>
    ELSE IF m[Len(m)] = 0 THEN BigNorm(SubSeq(m, 1, Len(m) - 1))
    ELSE m

RECURSIVE BigFromInt(_)
BigFromInt(n) ==
    IF n = 0 THEN <<>> ELSE <<n % LimbBase>> \o BigFromInt(n \div LimbBase)

\* the value of a number known to fit an integer of the checker
RECURSIVE BigToInt(_)
BigToInt(m) ==
    IF m = <<>> THEN 0 ELSE m[1] + LimbBase * BigToInt(Tail(m))

RECURSIVE SmallBitLen(_)
SmallBitLen(n) == IF n = 0 THEN 0 ELSE 1 + SmallBitLen(n \div 2)

\* number of significant bits of a normalised number
BigBitLen(m) ==
    IF m = <<>> THEN 0 ELSE LimbBits * (Len(m) - 1) + SmallBitLen(m[Len(m)])

\* bit i (bit 0 is the lowest)
BigBit(m, i) ==
    LET l == (i \div LimbBits) + 1
    IN  IF l > Len(m) THEN 0 ELSE (m[l] \div Pow2(i % LimbBits)) % 2

\* whether one of the k lowest bits is set
BigLowNonzero(m, k) ==
    \E l \in 1 .. Len(m) :
        \/ l <= k \div LimbBits /\ m[l] # 0
        \/ l = (k \div LimbBits) + 1 /\ m[l] % Pow2(k % LimbBits) # 0

\* m * 2^k
BigShl(m, k) ==
    LET q == k \div LimbBits
        s == Pow2(k % LimbBits)
        n == Len(m)
        wide == [i \in 1 .. n + 1 |->
                    ((IF i <= n THEN (m[i] * s) % LimbBase ELSE 0)
                     + (IF i > 1 THEN (m[i - 1] * s) \div LimbBase ELSE 0))]
    IN  IF m = <<>> THEN <<>>
        ELSE BigNorm([i \in 1 .. q |-> 0] \o wide)

\* floor(m / 2^k)
BigShr(m, k) ==
    LET q == k \div LimbBits
        b == k % LimbBits
        s == Pow2(b)
        t == Pow2(LimbBits - b)
        n == Len(m) - q
    IN  IF n <= 0 THEN <<>>
        ELSE BigNorm([i \in 1 .. n |->
                        (m[i + q] \div s)
                        + (IF i + q < Len(m) THEN (m[i + q + 1] % s) * t ELSE 0)])

\* m + c for a carry c below the limb base
RECURSIVE BigAddSmall(_, _)
BigAddSmall(m, c) ==
    IF c = 0 THEN m
    ELSE IF m = <<>> THEN <<c>>
    ELSE <<(m[1] + c) % LimbBase>>
         \o BigAddSmall(Tail(m), (m[1] + c) \div LimbBase)

\* -1, 0, 1 as a < b, a = b, a > b (both normalised)
RECURSIVE BigCmp(_, _)
BigCmp(a, b) ==
    IF Len(a) # Len(b) THEN (IF Len(a) < Len(b) THEN -1 ELSE 1)
    ELSE IF a = <<>> THEN 0
    ELSE IF a[Len(a)] # b[Len(b)] THEN (IF a[Len(a)] < b[Len(b)] THEN -1 ELSE 1)
    ELSE BigCmp(BigNorm(SubSeq(a, 1, Len(a) - 1)), BigNorm(SubSeq(b, 1, Len(b) - 1)))

RECURSIVE BigAddC(_, _, _)
BigAddC(a, b, c) ==
    IF a = <<>> /\ b = <<>> THEN (IF c = 0 THEN <<>> ELSE <<c>>)
    ELSE LET x == IF a = <<>> THEN 0 ELSE a[1]
             y == IF b = <<>> THEN 0 ELSE b[1]
             ta == IF a = <<>> THEN <<>> ELSE Tail(a)
             tb == IF b = <<>> THEN <<>> ELSE Tail(b)
         IN  <<(x + y + c) % LimbBase>> \o BigAddC(ta, tb, (x + y + c) \div LimbBase)

BigAdd(a, b) == BigAddC(a, b, 0)

\* a - b for a >= b, with borrow c
RECURSIVE BigSubC(_, _, _)
BigSubC(a, b, c) ==
    IF a = <<>> THEN <<>>
    ELSE LET y == (IF b = <<>> THEN 0 ELSE b[1]) + c
             tb == IF b = <<>> THEN <<>> ELSE Tail(b)
         IN  IF a[1] >= y
             THEN <<a[1] - y>> \o BigSubC(Tail(a), tb, 0)
             ELSE <<a[1] + LimbBase - y>> \o BigSubC(Tail(a), tb, 1)

BigSub(a, b) == BigNorm(BigSubC(a, b, 0))

\* m * d for one limb d
RECURSIVE BigMulLimb(_, _, _)
BigMulLimb(m, d, c) ==
    IF m = <<>> THEN (IF c = 0 THEN <<>> ELSE <<c>>)
    ELSE <<(m[1] * d + c) % LimbBase>>
         \o BigMulLimb(Tail(m), d, (m[1] * d + c) \div LimbBase)

RECURSIVE BigMul(_, _)
BigMul(a, b) ==
    IF b = <<>> \/ a = <<>> THEN <<>>
    ELSE BigNorm(BigAdd(BigMulLimb(a, b[1], 0), <<0>> \o BigMul(a, Tail(b))))

\* floor(m / d) and m mod d for 0 < d < the limb base, high limb first
RECURSIVE BigDivSmallRec(_, _, _)
BigDivSmallRec(m, d, r) ==
    IF m = <<>> THEN [quo |-> <<>>, rem |-> r]
    ELSE LET cur == r * LimbBase + m[Len(m)]
             rest == BigDivSmallRec(SubSeq(m, 1, Len(m) - 1), d, cur % d)
         IN  [quo |-> rest.quo \o <<cur \div d>>, rem |-> rest.rem]

BigDivSmall(m, d) ==
    LET r == BigDivSmallRec(m, d, 0)
    IN  [quo |-> BigNorm(r.quo), rem |-> r.rem]

\* ------------------------------------------------------------------------
\* f64: IEEE-754 binary64, round to nearest, ties to even
\* ------------------------------------------------------------------------
\* A value is sgn * man * 2^exp with man = 0 or 2^52 <= man < 2^53.  The
\* programs only form quotients and products of word-sized integers, which
\* stay far inside the exponent range: infinities, NaN and subnormals never
\* arise (a zero divisor is excluded by the `xj != xm` guards).

MantBits == 53

DivGuardBits == 75

F64Zero(s) == [sgn |-> s, man |-> <<>>, exp |-> 0]

\* the binary64 nearest to s * m * 2^e (plus a non-zero tail below m's
\* lowest bit when sticky)
F64Round(s, m, e, sticky) ==
    LET L == BigBitLen(m)
        sh == L - MantBits
        q == BigShr(m, sh)
        half == BigBit(m, sh - 1) = 1
        rest == sticky \/ BigLowNonzero(m, sh - 1)
        up == half /\ (rest \/ BigBit(q, 0) = 1)
        q2 == IF up THEN BigAddSmall(q, 1) ELSE q
    IN  IF m = <<>> THEN F64Zero(s)
        ELSE IF L <= MantBits
        THEN [sgn |-> s, man |-> BigShl(m, MantBits - L), exp |-> e - (MantBits - L)]
        ELSE IF BigBitLen(q2) > MantBits
        THEN [sgn |-> s, man |-> BigShr(q2, 1), exp |-> e + sh + 1]
        ELSE [sgn |-> s, man |-> q2, exp |-> e + sh]

\* `n as f64` for an integer n
F64FromInt(n) ==
    F64Round(IF n < 0 THEN -1 ELSE 1, BigFromInt(IF n < 0 THEN -n ELSE n), 0, FALSE)

\* a - b
F64Sub(a, b) ==
    LET e == IF a.exp < b.exp THEN a.exp ELSE b.exp
        ma == BigShl(a.man, a.exp - e)
        mb == BigShl(b.man, b.exp - e)
        sb == -b.sgn
        c == BigCmp(ma, mb)
    IN  IF a.sgn = sb THEN F64Round(a.sgn, BigAdd(ma, mb), e, FALSE)
        ELSE IF c = 0 THEN F64Zero(1)
        ELSE IF c > 0 THEN F64Round(a.sgn, BigSub(ma, mb), e, FALSE)
        ELSE F64Round(sb, BigSub(mb, ma), e, FALSE)

RECURSIVE SmallTrailingZeros(_)
SmallTrailingZeros(n) == IF n % 2 = 1 THEN 0 ELSE 1 + SmallTrailingZeros(n \div 2)

\* number of zero bits below the lowest set bit of m # 0
RECURSIVE BigTrailingZeros(_)
BigTrailingZeros(m) ==
    IF m[1] = 0 THEN LimbBits + BigTrailingZeros(Tail(m))
    ELSE SmallTrailingZeros(m[1])

\* a * b
F64Mul(a, b) ==
    F64Round(a.sgn * b.sgn, BigMul(a.man, b.man), a.exp + b.exp, FALSE)

\* a / b for b # 0 whose odd part fits one limb (every divisor here is a
\* difference of two words)
F64Div(a, b) ==
    LET tz == BigTrailingZeros(b.man)
        d == BigToInt(BigShr(b.man, tz))
        qr == BigDivSmall(BigShl(a.man, DivGuardBits), d)
    IN  F64Round(a.sgn * b.sgn, qr.quo, a.exp - b.exp - tz - DivGuardBits, qr.rem # 0)

\* a == b
F64Eq(a, b) == (a.man = <<>> /\ b.man = <<>>) \/ a = b

\* ------------------------------------------------------------------------
\* Machine words, the scalar field, the groups and the pairing
\* ------------------------------------------------------------------------

WordBits == 12

WordMod == Pow2(WordBits)

I64Max == Pow2(WordBits - 1) - 1

I64Min == -Pow2(WordBits - 1)

\* `n as u64`: the word congruent to n
AsU64(n) == n % WordMod

\* `n as i64`: the signed word congruent to n
AsI64(n) == ((n - I64Min) % WordMod) + I64Min

Panic == -1

\* the result of an unsigned operation whose exact value is n: the build
\* either checks for overflow (a panic) or wraps
CheckedU64(n, checks) ==
    IF n < WordMod THEN n ELSE IF checks THEN Panic ELSE n % WordMod

\* `r as i64` for an f64: truncation toward zero, saturating at the bounds
F64ToI64(a) ==
    LET mag == IF a.exp >= 0 THEN BigShl(a.man, a.exp) ELSE BigShr(a.man, -a.exp)
    IN  IF BigBitLen(mag) >= WordBits
        THEN (IF a.sgn < 0 THEN I64Min ELSE I64Max)
        ELSE a.sgn * BigToInt(mag)

ScalarOrder == 4099

\* Scalar::from(n) for a word n
ScalarFrom(n) == n % ScalarOrder

Generator == 1

Identity == 0

\* point + point, -point, point * scalar (either group)
PointAdd(p, q) == (p + q) % ScalarOrder

PointNeg(p) == (ScalarOrder - p) % ScalarOrder

PointSub(p, q) == PointAdd(p, PointNeg(q))

PointMul(p, s) == (p * s) % ScalarOrder

\* e(p, q) for p in G1 and q in G2
pairing(p, q) == (p * q) % ScalarOrder

\* hash-to-curve images of the message: points of G2 other than the identity
MessagePoints == {7, 1234}

\* ------------------------------------------------------------------------
\* Checked / wrapping word arithmetic (a Panic operand stays a Panic)
\* ------------------------------------------------------------------------

UAdd(a, b, checks) ==
    IF a = Panic \/ b = Panic THEN Panic ELSE CheckedU64(a + b, checks)

UMul(a, b, checks) ==
    IF a = Panic \/ b = Panic THEN Panic ELSE CheckedU64(a * b, checks)

\* x.pow(i)
RECURSIVE UPow(_, _, _)
UPow(x, i, checks) ==
    IF i = 0 THEN 1 ELSE UMul(UPow(x, i - 1, checks), x, checks)

\* ------------------------------------------------------------------------
\* src/dkg/src/main.rs: the functions
\* ------------------------------------------------------------------------

\* f(x) = sum a_i * x^i over u64; coefficients[i + 1] is a_i
RECURSIVE compute_polynomial_from(_, _, _, _, _)
compute_polynomial_from(coefficients, x, checks, i, acc) ==
    IF i > Len(coefficients) THEN acc
    ELSE compute_polynomial_from(coefficients, x, checks, i + 1,
             UAdd(acc, UMul(coefficients[i], UPow(x, i - 1, checks), checks), checks))

compute_polynomial(coefficients, x, checks) ==
    compute_polynomial_from(coefficients, x, checks, 1, 0)

\* sum (a_i * G) * Scalar::from(x^i) in the group; x.pow is a u64 operation
RECURSIVE compute_polynomial_g_from(_, _, _, _)
compute_polynomial_g_from(coefficients, x, checks, i) ==
    IF i > Len(coefficients) THEN Identity
    ELSE LET p == UPow(x, i - 1, checks)
             rest == compute_polynomial_g_from(coefficients, x, checks, i + 1)
         IN  IF p = Panic \/ rest = Panic THEN Panic
             ELSE PointAdd(PointMul(coefficients[i], ScalarFrom(p)), rest)

compute_polynomial_g(coefficients, x, checks) ==
    compute_polynomial_g_from(coefficients, x, checks, 1)

\* the inner loop of aggregate_shares: r for the share at index j
RECURSIVE aggregate_r(_, _, _, _)
aggregate_r(shares, j, m, r) ==
    IF m > Len(shares) THEN r
    ELSE IF shares[j].x # shares[m].x
    THEN LET xm == F64FromInt(shares[m].x)
             xj == F64FromInt(shares[j].x)
         IN  aggregate_r(shares, j, m + 1, F64Mul(r, F64Div(xm, F64Sub(xm, xj))))
    ELSE aggregate_r(shares, j, m + 1, r)

\* aggregate_term without lines 218-222: the sign of r is dropped
aggregate_term_unsigned(shares, j) ==
    LET r == F64ToI64(aggregate_r(shares, j, 1, F64FromInt(1)))
    IN  PointMul(shares[j].yM, ScalarFrom(AsU64(IF r < 0 THEN AsI64(-r) ELSE r)))

\* the term t of one share: yM times the truncated r
aggregate_term(shares, j) ==
    LET r == F64ToI64(aggregate_r(shares, j, 1, F64FromInt(1)))
    IN  IF r < 0
        THEN PointNeg(PointMul(shares[j].yM, ScalarFrom(AsU64(AsI64(-r)))))
        ELSE PointMul(shares[j].yM, ScalarFrom(AsU64(r)))

RECURSIVE aggregate_sum(_, _, _)
aggregate_sum(shares, j, result) ==
    IF j > Len(shares) THEN result
    ELSE aggregate_sum(shares, j + 1, PointAdd(result, aggregate_term(shares, j)))

\* Given points (x, yM) computes "h(0) * M"
aggregate_shares(shares) ==
    PointSub(aggregate_sum(shares, 1, Generator), Generator)

\* ------------------------------------------------------------------------
\* src/bls_shamir/src/main.rs: the functions
\* ------------------------------------------------------------------------

PanicI64 == I64Min - 1

CheckedI64(n, checks) ==
    IF n >= I64Min /\ n <= I64Max THEN n ELSE IF checks THEN PanicI64 ELSE AsI64(n)

IAdd(a, b, checks) ==
    IF a = PanicI64 \/ b = PanicI64 THEN PanicI64 ELSE CheckedI64(a + b, checks)

IMul(a, b, checks) ==
    IF a = PanicI64 \/ b = PanicI64 THEN PanicI64 ELSE CheckedI64(a * b, checks)

\* the loop of mul_zero's closure: r for the point at index j
RECURSIVE mul_zero_r(_, _, _, _)
mul_zero_r(points, j, m, r) ==
    IF m > Len(points) THEN r
    ELSE IF points[m].x # points[j].x
    THEN LET xm == F64FromInt(points[m].x)
             xj == F64FromInt(points[j].x)
         IN  mul_zero_r(points, j, m + 1, F64Mul(r, F64Div(xm, F64Sub(xm, xj))))
    ELSE mul_zero_r(points, j, m + 1, r)

\* the closure of mul_zero from the point at index j on: whether every
\* assert_eq!(r as i64 as f64, r) passes, and the pairs (r as i64, y)
RECURSIVE mul_zero_from(_, _)
mul_zero_from(points, j) ==
    IF j > Len(points) THEN [returns |-> TRUE, pairs |-> <<>>]
    ELSE LET r == mul_zero_r(points, j, 1, F64FromInt(1))
             m == F64ToI64(r)
             rest == mul_zero_from(points, j + 1)
         IN  [returns |-> F64Eq(F64FromInt(m), r) /\ rest.returns,
              pairs |-> << [m |-> m, y |-> points[j].y] >> \o rest.pairs]

\* what mul_zero does with points: it returns the pairs, or an assertion
\* fails
mul_zero(points) == mul_zero_from(points, 1)

\* sum of m * (y as i64) over i64, left to right
RECURSIVE scalar_sum(_, _, _, _)
scalar_sum(pairs, checks, j, acc) ==
    IF j > Len(pairs) THEN acc
    ELSE scalar_sum(pairs, checks, j + 1,
             IAdd(acc, IMul(pairs[j].m, AsI64(pairs[j].y), checks), checks))

\* |m| * y, negated when m < 0
projective_mul(m, y) ==
    IF m < 0
    THEN PointNeg(PointMul(y, ScalarFrom(AsU64(AsI64(-m)))))
    ELSE PointMul(y, ScalarFrom(AsU64(m)))

\* .map(projective_mul).sum() over the pairs
RECURSIVE projective_sum(_, _, _)
projective_sum(pairs, j, acc) ==
    IF j > Len(pairs) THEN acc
    ELSE projective_sum(pairs, j + 1,
             PointAdd(acc, projective_mul(pairs[j].m, pairs[j].y)))

\* points (x, y) mapped to (x, P * Scalar::from(y))
lift_points(points, P) ==
    [j \in 1 .. Len(points) |->
        [x |-> points[j].x, y |-> PointMul(P, ScalarFrom(points[j].y))]]

\* ------------------------------------------------------------------------
\* Inputs
\* ------------------------------------------------------------------------

\* the nodes 1..=5 of the dkg program
NumNodes == 5

Nodes == 1 .. NumNodes

\* most signature shares one round collects
MaxSubmitted == 4

\* most points handed to mul_zero
MaxPoints == 3

\* the dealers' polynomials <<f, g>>: the program's own pair, a pair of
\* degree 1, a pair whose a_2 * x^2 leaves the word, and a pair whose
\* f(x) + g(x) leaves the word
PolyPairs ==
    { << <<5, 8, 3>>, <<19, 3, 9>> >>,
      << <<3, 5>>, <<1, 2>> >>,
      << <<5, 8, 1024>>, <<19, 3, 9>> >>,
      << <<2000, 8, 3>>, <<2090, 3, 9>> >> }

\* values a node may send in place of its share (the program's node 4
\* sends 29)
ForgedValues == {29}

ShamirCoefficients == {3, 5}

\* secret polynomials of degree 1 and 2 (5x + 3 is the program's)
ShamirPolys ==
    { p \in [1 .. 2 -> ShamirCoefficients] \cup [1 .. 3 -> ShamirCoefficients] :
        p[Len(p)] # 0 }

ShamirAbscissas == {0, 1, 2, 3, 8, 16}

RECURSIVE IsNonDecreasing(_)
IsNonDecreasing(xs) ==
    Len(xs) <= 1 \/ (xs[1] <= xs[2] /\ IsNonDecreasing(Tail(xs)))

ShamirAbscissaSeqs ==
    UNION { { xs \in [1 .. n -> ShamirAbscissas] : IsNonDecreasing(xs) } :
            n \in 2 .. MaxPoints }

\* the exact value of the polynomial at x
RECURSIVE Eval(_, _)
Eval(poly, x) ==
    IF poly = <<>> THEN 0 ELSE poly[1] + x * Eval(Tail(poly), x)

RECURSIVE SetToSeq(_)
SetToSeq(S) ==
    IF S = {} THEN <<>>
    ELSE LET lo == CHOOSE a \in S : \A b \in S : a <= b
         IN  <<lo>> \o SetToSeq(S \ {lo})

\* ------------------------------------------------------------------------
\* State
\* ------------------------------------------------------------------------

VARIABLES
    program,                \* which binary runs: "dkg" or "bls_shamir"
    pc,                     \* the place main has reached
    failure,                \* why main panicked, "none" while it has not
    overflow_checks,        \* the build: integer overflow panics or wraps
    M,                      \* the message's point in G2
    f_coefficients, g_coefficients,
    f_points, g_points,
    f_public_coefficients, g_public_coefficients,
    f_public_points, g_public_points,
    h_public_coefficients, shares,
    public_key,
    sent_values,            \* the scalar each sender multiplied M by
    sign_shares,            \* the candidate shares (x, yM)
    next_share,             \* the filter's position in sign_shares
    valid,                  \* the shares the filter has kept
    sign,
    secret_poly,            \* the polynomial the dealer chose the points from
    secret_points, public_points, private_key

dkgVars ==
    << f_coefficients, g_coefficients, f_points, g_points,
       f_public_coefficients, g_public_coefficients,
       f_public_points, g_public_points, h_public_coefficients, shares >>

roundVars == << sent_values, sign_shares, next_share, valid >>

shamirVars == << secret_poly, secret_points, public_points, private_key >>

envVars == << program, overflow_checks, M >>

vars == << envVars, pc, failure, dkgVars, roundVars, shamirVars, public_key, sign >>

NoPoint == -1

NoKey == -1

InitDkg ==
    /\ program = "dkg"
    /\ pc = "deal"
    /\ \E pair \in PolyPairs :
          /\ f_coefficients = pair[1]
          /\ g_coefficients = pair[2]
    /\ secret_poly = <<>>
    /\ secret_points = <<>>

InitShamir ==
    /\ program = "bls_shamir"
    /\ pc = "publish"
    /\ f_coefficients = <<>>
    /\ g_coefficients = <<>>
    /\ \E poly \in ShamirPolys, xs \in ShamirAbscissaSeqs :
          /\ secret_poly = poly
          /\ secret_points =
                [j \in 1 .. Len(xs) |-> [x |-> xs[j], y |-> Eval(poly, xs[j])]]

Init ==
    /\ overflow_checks \in BOOLEAN
    /\ M \in MessagePoints
    /\ failure = "none"
    /\ f_points = <<>> /\ g_points = <<>>
    /\ f_public_coefficients = <<>> /\ g_public_coefficients = <<>>
    /\ f_public_points = <<>> /\ g_public_points = <<>>
    /\ h_public_coefficients = <<>> /\ shares = <<>>
    /\ public_key = NoPoint /\ sign = NoPoint
    /\ sent_values = <<>> /\ sign_shares = <<>> /\ next_share = 1 /\ valid = <<>>
    /\ public_points = <<>> /\ private_key = NoKey
    /\ (InitDkg \/ InitShamir)

\* ------------------------------------------------------------------------
\* src/dkg/src/main.rs: main
\* ------------------------------------------------------------------------

PanicWith(why) ==
    /\ pc' = "panicked"
    /\ failure' = why

commit(coefficients) ==
    [i \in 1 .. Len(coefficients) |-> PointMul(Generator, ScalarFrom(coefficients[i]))]

public_points_of(points) ==
    [n \in 1 .. Len(points) |->
        [x |-> points[n].x, yG |-> PointMul(Generator, ScalarFrom(points[n].y))]]

\* lines 23-62: each dealer evaluates its polynomial at 1..=5 and publishes
\* the coefficients and the points times G
Deal ==
    /\ program = "dkg" /\ pc = "deal"
    /\ LET fp == [x \in Nodes |->
                    [x |-> x, y |-> compute_polynomial(f_coefficients, x, overflow_checks)]]
           gp == [x \in Nodes |->
                    [x |-> x, y |-> compute_polynomial(g_coefficients, x, overflow_checks)]]
       IN  IF \E x \in Nodes : fp[x].y = Panic \/ gp[x].y = Panic
           THEN /\ PanicWith("overflow")
                /\ UNCHANGED << f_points, g_points, f_public_coefficients,
                                g_public_coefficients, f_public_points, g_public_points >>
           ELSE /\ pc' = "verify_step1"
                /\ failure' = failure
                /\ f_points' = fp
                /\ g_points' = gp
                /\ f_public_coefficients' = commit(f_coefficients)
                /\ g_public_coefficients' = commit(g_coefficients)
                /\ f_public_points' = public_points_of(fp)
                /\ g_public_points' = public_points_of(gp)
    /\ UNCHANGED << envVars, f_coefficients, g_coefficients, h_public_coefficients,
                    shares, roundVars, shamirVars, public_key, sign >>

\* lines 70-81: every node recomputes y * G from its y
VerifyStep1 ==
    /\ program = "dkg" /\ pc = "verify_step1"
    /\ IF \A n \in Nodes :
             /\ PointMul(Generator, ScalarFrom(f_points[n].y)) = f_public_points[n].yG
             /\ PointMul(Generator, ScalarFrom(g_points[n].y)) = g_public_points[n].yG
       THEN pc' = "verify_step2" /\ failure' = failure
       ELSE PanicWith("assert_public_point")
    /\ UNCHANGED << envVars, dkgVars, roundVars, shamirVars, public_key, sign >>

commitment_points(coefficients, checks) ==
    [x \in Nodes |-> [x |-> x, yG |-> compute_polynomial_g(coefficients, x, checks)]]

\* lines 83-92: every public point lies on the committed polynomial
VerifyStep2 ==
    /\ program = "dkg" /\ pc = "verify_step2"
    /\ LET f_p == commitment_points(f_public_coefficients, overflow_checks)
           g_p == commitment_points(g_public_coefficients, overflow_checks)
       IN  IF \E x \in Nodes : f_p[x].yG = Panic \/ g_p[x].yG = Panic
           THEN PanicWith("overflow")
           ELSE IF f_p = f_public_points /\ g_p = g_public_points
           THEN pc' = "combine" /\ failure' = failure
           ELSE PanicWith("assert_commitment")
    /\ UNCHANGED << envVars, dkgVars, roundVars, shamirVars, public_key, sign >>

MinLen(a, b) == IF Len(a) < Len(b) THEN Len(a) ELSE Len(b)

\* lines 100-116: the commitment to h = f + g, the nodes' shares of h and
\* the public key h(0) * G
Combine ==
    /\ program = "dkg" /\ pc = "combine"
    /\ LET hc == [i \in 1 .. MinLen(f_public_coefficients, g_public_coefficients) |->
                    PointAdd(f_public_coefficients[i], g_public_coefficients[i])]
           sh == [n \in 1 .. MinLen(f_points, g_points) |->
                    [x |-> f_points[n].x,
                     y |-> UAdd(f_points[n].y, g_points[n].y, overflow_checks)]]
       IN  IF \E n \in 1 .. Len(sh) : sh[n].y = Panic
           THEN /\ PanicWith("overflow")
                /\ UNCHANGED << h_public_coefficients, shares, public_key >>
           ELSE /\ pc' = "collect"
                /\ failure' = failure
                /\ h_public_coefficients' = hc
                /\ shares' = sh
                /\ public_key' = compute_polynomial_g(hc, 0, overflow_checks)
    /\ UNCHANGED << envVars, f_coefficients, g_coefficients, f_points, g_points,
                    f_public_coefficients, g_public_coefficients,
                    f_public_points, g_public_points, roundVars, shamirVars, sign >>

\* lines 128-144: the candidate shares (x, y * M).  The program takes nodes
\* 1, 2, 3 with their shares and node 4 with 29; here any nodes, each
\* sending its share or a forged value.
CollectShares ==
    /\ program = "dkg" /\ pc = "collect"
    /\ \E S \in SUBSET Nodes :
          /\ Cardinality(S) >= 1 /\ Cardinality(S) <= MaxSubmitted
          /\ \E forgers \in SUBSET S :
             \E forged \in [forgers -> ForgedValues] :
                LET xs == SetToSeq(S)
                    ys == [j \in 1 .. Len(xs) |->
                             IF xs[j] \in forgers THEN forged[xs[j]] ELSE shares[xs[j]].y]
                IN  /\ sent_values' = ys
                    /\ sign_shares' =
                          [j \in 1 .. Len(xs) |->
                              [x |-> xs[j], yM |-> PointMul(M, ScalarFrom(ys[j]))]]
    /\ next_share' = 1
    /\ valid' = <<>>
    /\ pc' = "validating"
    /\ UNCHANGED << envVars, failure, dkgVars, shamirVars, public_key, sign >>

\* the closure with yG taken from the first dealer's public point alone
verify_share_one_dealer(share) ==
    LET node == share.x - 1
        yG == f_public_points[node + 1].yG
    IN  pairing(yG, M) = pairing(Generator, share.yM)

\* lines 149-157, the filter's closure: e(yG, M) == e(G, yM) with yG the sum
\* of the node's two public points
verify_share(share) ==
    LET node == share.x - 1
        yG == PointAdd(f_public_points[node + 1].yG, g_public_points[node + 1].yG)
        l == pairing(yG, M)
        r == pairing(Generator, share.yM)
    IN  l = r

\* a filter that hands over before it has seen every candidate
ValidationCutShort == TRUE

\* the filter has seen every candidate
AllValidated == next_share > Len(sign_shares)

\* one candidate through the filter
ValidateShare ==
    /\ program = "dkg" /\ pc = "validating"
    /\ next_share <= Len(sign_shares)
    /\ valid' = (IF verify_share(sign_shares[next_share])
                 THEN Append(valid, sign_shares[next_share])
                 ELSE valid)
    /\ next_share' = next_share + 1
    /\ UNCHANGED << envVars, pc, failure, dkgVars, sent_values, sign_shares,
                    shamirVars, public_key, sign >>

\* lines 158-164: collect() returns the survivors
FinishValidation ==
    /\ program = "dkg" /\ pc = "validating"
    /\ AllValidated
    /\ pc' = "aggregating"
    /\ UNCHANGED << envVars, failure, dkgVars, roundVars, shamirVars, public_key, sign >>

\* line 168
Aggregate ==
    /\ program = "dkg" /\ pc = "aggregating"
    /\ sign' = aggregate_shares(valid)
    /\ pc' = "aggregated"
    /\ UNCHANGED << envVars, failure, dkgVars, roundVars, shamirVars, public_key >>

\* lines 172-180: assert_eq!(e(public_key, M), e(G, sign))
VerifySignature ==
    /\ program = "dkg" /\ pc = "aggregated"
    /\ LET left == pairing(public_key, M)
           right == pairing(Generator, sign)
       IN  IF left = right
           THEN pc' = "verified" /\ failure' = failure
           ELSE pc' = "verification_failed" /\ failure' = "VerificationFailed"
    /\ UNCHANGED << envVars, dkgVars, roundVars, shamirVars, public_key, sign >>

DkgNext ==
    \/ Deal
    \/ VerifyStep1
    \/ VerifyStep2
    \/ Combine
    \/ CollectShares
    \/ ValidateShare
    \/ FinishValidation
    \/ Aggregate
    \/ VerifySignature

\* ------------------------------------------------------------------------
\* src/bls_shamir/src/main.rs: main
\* ------------------------------------------------------------------------

\* lines 15-20: the nodes emit (x, y * G)
Publish ==
    /\ program = "bls_shamir" /\ pc = "publish"
    /\ public_points' = lift_points(secret_points, Generator)
    /\ pc' = "private_key"
    /\ UNCHANGED << envVars, failure, dkgVars, roundVars, secret_poly, secret_points,
                    private_key, public_key, sign >>

\* lines 22-26: f(0) from the secret points
ComputePrivateKey ==
    /\ program = "bls_shamir" /\ pc = "private_key"
    /\ LET coefficients == mul_zero(secret_points)
           total == scalar_sum(coefficients.pairs, overflow_checks, 1, 0)
       IN  IF ~coefficients.returns
           THEN PanicWith("NonIntegerCoefficient") /\ private_key' = private_key
           ELSE IF total = PanicI64
           THEN PanicWith("overflow") /\ private_key' = private_key
           ELSE /\ private_key' = AsU64(total)
                /\ pc' = "public_key"
                /\ failure' = failure
    /\ UNCHANGED << envVars, dkgVars, roundVars, secret_poly, secret_points,
                    public_points, public_key, sign >>

\* lines 28-33: f(0) * G from the public points
ComputePublicKey ==
    /\ program = "bls_shamir" /\ pc = "public_key"
    /\ LET coefficients == mul_zero(public_points)
       IN  IF ~coefficients.returns
           THEN PanicWith("NonIntegerCoefficient") /\ public_key' = public_key
           ELSE /\ public_key' = projective_sum(coefficients.pairs, 1, Identity)
                /\ pc' = "check_key"
                /\ failure' = failure
    /\ UNCHANGED << envVars, dkgVars, roundVars, shamirVars, sign >>

\* lines 35-40: assert_eq!(G * private_key, public_key)
CheckKey ==
    /\ program = "bls_shamir" /\ pc = "check_key"
    /\ LET t == PointMul(Generator, ScalarFrom(private_key))
       IN  IF t = public_key
           THEN pc' = "sign" /\ failure' = failure
           ELSE PanicWith("assert_public_key")
    /\ UNCHANGED << envVars, dkgVars, roundVars, shamirVars, public_key, sign >>

\* lines 58-76: the nodes send (x, y * M); f(0) * M from those
SignMessage ==
    /\ program = "bls_shamir" /\ pc = "sign"
    /\ LET coefficients == mul_zero(lift_points(secret_points, M))
       IN  IF ~coefficients.returns
           THEN PanicWith("NonIntegerCoefficient") /\ sign' = sign
           ELSE /\ sign' = projective_sum(coefficients.pairs, 1, Identity)
                /\ pc' = "verify"
                /\ failure' = failure
    /\ UNCHANGED << envVars, dkgVars, roundVars, shamirVars, public_key >>

\* lines 80-88: assert_eq!(e(public_key, M), e(G, sign))
VerifyShamirSignature ==
    /\ program = "bls_shamir" /\ pc = "verify"
    /\ LET left == pairing(public_key, M)
           right == pairing(Generator, sign)
       IN  IF left = right
           THEN pc' = "validated" /\ failure' = failure
           ELSE PanicWith("assert_signature")
    /\ UNCHANGED << envVars, dkgVars, roundVars, shamirVars, public_key, sign >>

ShamirNext ==
    \/ Publish
    \/ ComputePrivateKey
    \/ ComputePublicKey
    \/ CheckKey
    \/ SignMessage
    \/ VerifyShamirSignature

Next == DkgNext \/ ShamirNext

Spec == Init /\ [][Next]_vars

\* the values pc takes
ProgramCounters ==
    {"deal", "verify_step1", "verify_step2", "combine", "collect", "validating",
     "aggregating", "aggregated", "verified", "verification_failed",
     "publish", "private_key", "public_key", "check_key", "sign", "verify",
     "validated", "panicked"}

\* main has neither returned nor panicked
Running == pc \notin {"verified", "verification_failed", "validated", "panicked"}

\* where main is: its statement and, inside the filter, the next candidate
position == << pc, next_share >>

\* main moves on.  Every step of Next changes position, and a step of Next
\* can be taken wherever Running holds: each statement's action is guarded
\* by pc alone (the filter's two by pc and next_share, between them total).
Advance ==
    /\ Running
    /\ pc' \in ProgramCounters
    /\ next_share' \in 1 .. (MaxSubmitted + 1)
    /\ position' # position

\* main is one thread that runs until it returns or panics: while it is
\* running it is not held at one position for ever
FairSpec == Spec /\ WF_position(Advance)

\* ------------------------------------------------------------------------
\* Properties
\* ------------------------------------------------------------------------

\* the combined polynomial h = f + g at x, as a scalar
h_at(x) == (Eval(f_coefficients, x) + Eval(g_coefficients, x)) % ScalarOrder

\* the threshold t: the degree of the dealers' polynomials plus one
Threshold == Len(f_coefficients)

\* the signing round's state, read off main's position
RoundState ==
    CASE pc = "collect" -> "CollectingShares"
      [] pc = "validating" -> "Validating"
      [] pc = "aggregating" -> "Aggregating"
      [] pc = "aggregated" -> "Aggregated"
      [] pc = "verified" -> "Verified"
      [] pc = "verification_failed" -> "VerificationFailed"
      [] OTHER -> "NoRound"

FilterDone == pc \in {"aggregating", "aggregated", "verified", "verification_failed"}

AggregateDone == pc \in {"aggregated", "verified", "verification_failed"}

\* the dealers, the senders and the values of scenario C: f and g as in the
\* program, nodes 1..4 send, 1..3 their share of h and 4 another value
ScenarioC ==
    /\ program = "dkg"
    /\ f_coefficients = <<5, 8, 3>> /\ g_coefficients = <<19, 3, 9>>
    /\ Len(sign_shares) = 4
    /\ \A j \in 1 .. 4 : sign_shares[j].x = j
    /\ \A j \in 1 .. 3 : ScalarFrom(sent_values[j]) = h_at(j)
    /\ ScalarFrom(sent_values[4]) # h_at(4)

\* C1: in scenario C the filter drops exactly the share of node 4 and keeps
\* the other three in order, and the signature aggregated from them passes
\* e(public_key, M) == e(G, signature) with public_key = h(0) * G = 24 * G.
C1_ScenarioC ==
    ScenarioC =>
        /\ FilterDone => valid = SubSeq(sign_shares, 1, 3)
        /\ public_key = PointMul(Generator, ScalarFrom(24))
        /\ AggregateDone =>
              /\ pairing(public_key, M) = pairing(Generator, sign)
              /\ sign = PointMul(M, ScalarFrom(24))
        /\ pc # "verification_failed"

C1_Witness == ScenarioC /\ pc = "verified" /\ Len(valid) = 3

\* C7: a candidate the filter has seen is kept if and only if the value its
\* sender multiplied M by equals h(x) in the scalar field.
C7_ShareAcceptedIffOnH ==
    (program = "dkg" /\ RoundState # "NoRound" /\ RoundState # "CollectingShares") =>
        \A j \in 1 .. Len(sign_shares) :
            j < next_share =>
                ((\E k \in 1 .. Len(valid) : valid[k] = sign_shares[j])
                    <=> ScalarFrom(sent_values[j]) = h_at(sign_shares[j].x))

C7_Witness ==
    /\ program = "dkg" /\ pc = "aggregating"
    /\ \E j \in 1 .. Len(sign_shares) :
          /\ ScalarFrom(sent_values[j]) # h_at(sign_shares[j].x)
          /\ \A k \in 1 .. Len(valid) : valid[k] # sign_shares[j]
    /\ \E j \in 1 .. Len(sign_shares) :
          /\ ScalarFrom(sent_values[j]) = h_at(sign_shares[j].x)
          /\ \E k \in 1 .. Len(valid) : valid[k] = sign_shares[j]

RoundEdges ==
    { <<"NoRound", "CollectingShares">>,
      <<"CollectingShares", "Validating">>,
      <<"Validating", "InsufficientShares">>,
      <<"Validating", "Aggregating">>,
      <<"Aggregating", "Aggregated">>,
      <<"Aggregated", "VerificationFailed">>,
      <<"Aggregated", "Verified">> }

RoundTerminal == {"Verified", "VerificationFailed", "InsufficientShares"}

RoundMovesAlongEdges ==
    RoundState' # RoundState => <<RoundState, RoundState'>> \in RoundEdges

RoundBarriers ==
    /\ RoundState' = "Aggregating" => next_share > Len(sign_shares)
    /\ RoundState' \in {"Verified", "VerificationFailed"} =>
          (RoundState \in {"Aggregated", "Verified", "VerificationFailed"}
           /\ sign # NoPoint)

\* C10: a signing round moves only along CollectingShares -> Validating ->
\* (InsufficientShares | Aggregating) -> Aggregated -> (VerificationFailed |
\* Verified); once begun it ends in a terminal state and stays there;
\* aggregation starts only after the filter has seen every candidate, and
\* the final verification only after the signature has been aggregated.
C10_RoundOrdering ==
    /\ [][RoundMovesAlongEdges /\ RoundBarriers]_vars
    /\ (RoundState = "CollectingShares") ~> [](RoundState \in RoundTerminal)

C10_Witness ==
    /\ RoundState = "VerificationFailed"
    /\ Len(sign_shares) = MaxSubmitted
    /\ Len(valid) < Len(sign_shares)

\* C4: the shares that survive the filter number at least t whenever
\* aggregation is entered; with fewer the round ends without a signature.
C4_ThresholdPolicy ==
    (program = "dkg" /\ next_share > Len(sign_shares) /\ Len(valid) < Threshold)
        => (~FilterDone /\ sign = NoPoint)

\* all candidates of the round carry the sender's share of h
AllHonest ==
    \A j \in 1 .. Len(sign_shares) :
        ScalarFrom(sent_values[j]) = h_at(sign_shares[j].x)

\* C3: with f and g as in the program and any three of the five nodes
\* sending their shares, aggregate_shares returns h(0) * M = 24 * M.
C3_AnyThreeOfFive ==
    (/\ program = "dkg"
     /\ f_coefficients = <<5, 8, 3>> /\ g_coefficients = <<19, 3, 9>>
     /\ AggregateDone
     /\ Len(sign_shares) = 3 /\ AllHonest)
        => sign = PointMul(M, ScalarFrom(24))

\* r of aggregate_shares is an exact integer
aggregate_r_is_integer(points, j) ==
    LET r == aggregate_r(points, j, 1, F64FromInt(1))
    IN  F64Eq(F64FromInt(F64ToI64(r)), r)

\* C5: every coefficient an interpolation routine has used is an exact
\* integer: mul_zero has returned, or aggregate_shares has produced a
\* signature, only when no coefficient had a fractional part.
C5_IntegerCoefficients ==
    /\ (program = "dkg" /\ AggregateDone) =>
          \A j \in 1 .. Len(valid) : aggregate_r_is_integer(valid, j)
    /\ (program = "bls_shamir" /\ private_key # NoKey) =>
          mul_zero(secret_points).returns

HasZeroOrDuplicate(points) ==
    \/ \E j \in 1 .. Len(points) : points[j].x = 0
    \/ \E j, k \in 1 .. Len(points) : j # k /\ points[j].x = points[k].x

\* C6: an interpolation call whose abscissas contain 0 or a repetition
\* fails and yields neither coefficients nor a reconstructed value.
C6_AbscissaValidation ==
    /\ (program = "bls_shamir" /\ HasZeroOrDuplicate(secret_points)
            /\ pc \notin {"publish", "private_key"})
          => (pc = "panicked" /\ private_key = NoKey /\ public_key = NoPoint)
    /\ (program = "dkg" /\ AggregateDone) => ~HasZeroOrDuplicate(valid)

\* C8: for each dealer's polynomial and every node x, the commitment
\* evaluated at x is the polynomial's value at x times G.
C8_VssConsistency ==
    (program = "dkg" /\ pc # "deal") =>
        /\ Len(f_points) = NumNodes /\ Len(g_points) = NumNodes
        /\ \A x \in Nodes :
              /\ compute_polynomial_g(commit(f_coefficients), x, overflow_checks)
                    = PointMul(Generator, ScalarFrom(f_points[x].y))
              /\ compute_polynomial_g(commit(g_coefficients), x, overflow_checks)
                    = PointMul(Generator, ScalarFrom(g_points[x].y))

\* the abscissas are pairwise distinct, none is 0, and they number at least
\* t for the polynomial's degree t - 1
ProperShareSet ==
    /\ ~HasZeroOrDuplicate(secret_points)
    /\ Len(secret_points) >= Len(secret_poly)

\* C2: for every polynomial of degree t - 1 and every set of at least t
\* distinct non-zero abscissas the scalar reconstruction is f(0).
C2_Reconstruction ==
    (program = "bls_shamir" /\ ProperShareSet /\ pc \notin {"publish", "private_key"})
        => private_key = secret_poly[1]

\* C9: for every share set mul_zero accepts, the group reconstruction from
\* the points (x, y * G) is the scalar reconstruction times G.
C9_Homomorphism ==
    (program = "bls_shamir" /\ public_key # NoPoint)
        => public_key = PointMul(Generator, ScalarFrom(private_key))

====
